---- MODULE Spec2Model ----
(***************************************************************************)
(* Tool-dispatch engine of the MCP example servers:                        *)
(*   - MetricsCollector and ProductionMCPServer                            *)
(*     (04_advanced_examples/production_mcp_server.py),                    *)
(*   - SimpleMCPServer (02_mcp_basics/simple_mcp_server.py),               *)
(*   - ToolRegistry (01_function_calls/basic_function_calling.py).         *)
(*                                                                         *)
(* Python values are modelled as follows.  A dict is a function whose      *)
(* DOMAIN is its key set.  Optional[dict] is a sequence of length 0 (None) *)
(* or 1 (the dict).  A str argument whose content is irrelevant to the     *)
(* control flow is modelled by its length.  A float quotient is kept as    *)
(* an exact fraction [num, den].  Objects that are shared by reference     *)
(* live in heap and are named by their index.                              *)
(***************************************************************************)
EXTENDS Integers, Sequences, FiniteSets, TLC

VARIABLES
    now,             \* time.time(), in whole ticks
    metrics,         \* MetricsCollector.metrics (tools_executed holds a reference)
    response_times,  \* MetricsCollector.response_times
    heap,            \* dict objects reachable through references
    recorded,        \* history: every response_time passed to record_request, in order
    snap,            \* the dict most recently returned by MetricsCollector.get_metrics
    snapSeen,        \* history: what snap showed when it was returned
    snapTime,        \* history: the time at which snap was returned
    calls,           \* handle_call_tool invocations suspended at "await self._<tool>(...)"
    nextId,          \* number of invocations begun so far; ids are 1..nextId
    finished,        \* history: number of invocations that have returned or raised
    last,            \* history: the invocation that finished most recently
    gmPrev,          \* history: payload of the get_metrics call before the latest one
    gmLast,          \* history: payload of the latest get_metrics call that returned one
    gmGap,           \* history: another invocation finished between gmPrev and gmLast
    gmOthers,        \* history: another invocation finished since gmLast
    server_task,     \* state of server_task in main()
    s_last,          \* SimpleMCPServer: the latest call_tool request and its response
    s_count,         \* SimpleMCPServer: number of call_tool requests handled
    tools,           \* ToolRegistry.tools, a dict in insertion order
    reg_log,         \* history: the register_tool calls made, in order
    schemas,         \* the latest result of ToolRegistry.get_tool_schemas
    schemas_at,      \* history: Len(reg_log) when schemas was computed
    shutdown_event,  \* ProductionMCPServer.shutdown_event: is the asyncio.Event set
    signals,         \* history: number of SIGINT / SIGTERM deliveries handled
    main_pc,         \* where main() stands: "wait", "await_pending", "returned"
    event_waiter,    \* the task running shutdown_event.wait(): "pending", "done", "cancelled"
    final_metrics,   \* history: the "Final metrics" records logged by main()
    at_event,        \* history: ids of the invocations suspended when the event was set
    fm_last,         \* FileManagerMCPServer: the latest call_tool request and its response
    fm_count         \* FileManagerMCPServer: number of call_tool requests handled

mcVars == <<now, metrics, response_times, heap, recorded, snap, snapSeen, snapTime>>

prodVars == <<calls, nextId, finished, last, gmPrev, gmLast, gmGap, gmOthers, server_task>>

simpleVars == <<s_last, s_count>>

regVars == <<tools, reg_log, schemas, schemas_at>>

mainVars == <<shutdown_event, signals, main_pc, event_waiter, final_metrics, at_event>>

fmVars == <<fm_last, fm_count>>

vars == <<mcVars, prodVars, simpleVars, regVars, mainVars, fmVars>>

(***************************************************************************)
(* Bounds of the model.                                                    *)
(***************************************************************************)
MaxTime == 1        \* the clock stops ticking here
MaxRecords == 3     \* record_request calls explored on a bare MetricsCollector
MaxLatency == 1     \* response_time values fed to a bare MetricsCollector
MaxCalls == 2       \* invocations begun on one production session
MaxInFlight == 2    \* invocations suspended at the same time
MaxSimpleCalls == 4 \* call_tool requests handled by one simple server
MaxRegistrations == 3   \* register_tool calls made on one registry
MaxSignals == 2     \* termination signals delivered to one process
MaxFileCalls == 2   \* call_tool requests handled by one file manager server

\* len(self.response_times) > 1000: the source keeps 1000 measurements; the
\* model keeps 2 so that eviction happens within MaxRecords calls.
ResponseTimesCap == 2

(***************************************************************************)
(* Helpers for Python data.                                                *)
(***************************************************************************)
EmptyDict == [k \in {} |-> 0]

RECURSIVE SumSeq(_)
SumSeq(s) == IF s = <<>> THEN 0 ELSE Head(s) + SumSeq(Tail(s))

\* s[-n:] for n >= 1
LastN(s, n) == IF Len(s) <= n THEN s ELSE SubSeq(s, Len(s) - n + 1, Len(s))

\* s[:n]
FirstN(s, n) == IF Len(s) <= n THEN s ELSE SubSeq(s, 1, n)

\* d[k] = v on a dict
DictSet(d, k, v) == [x \in DOMAIN d \cup {k} |-> IF x = k THEN v ELSE d[x]]

\* bool(s) of a str given by its text
Truthy(s) == s # ""

(***************************************************************************)
(* MetricsCollector.  A collector state is [metrics, response_times, heap].*)
(***************************************************************************)
ToolsRef == 1   \* heap index of the dict created for "tools_executed"

MetricsInit(t) ==
    [ metrics |-> [ requests_total |-> 0,
                    requests_successful |-> 0,
                    requests_failed |-> 0,
                    tools_executed |-> ToolsRef,
                    average_response_time |-> [num |-> 0, den |-> 1],
                    uptime_seconds |-> 0,
                    start_time |-> t ],
      response_times |-> <<>>,
      heap |-> <<EmptyDict>> ]

\* lines 62-65 with both counters bumped
CountBoth(m, success) ==
    [m EXCEPT !.requests_successful = @ + 1, !.requests_failed = @ + 1]

\* lines 62-65: exactly one of the two outcome counters
CountOutcome(m, success) ==
    IF success
    THEN [m EXCEPT !.requests_successful = @ + 1]
    ELSE [m EXCEPT !.requests_failed = @ + 1]

\* lines 67-70: the per-tool count, skipped for a falsy tool_name
CountTool(h, ref, tool_name) ==
    IF Truthy(tool_name)
    THEN LET d  == h[ref]
             d0 == IF tool_name \in DOMAIN d THEN d ELSE DictSet(d, tool_name, 0)
         IN  [h EXCEPT ![ref] = DictSet(d0, tool_name, d0[tool_name] + 1)]
    ELSE h

\* lines 72-74 keeping the oldest entries
TrimOldest(rts, response_time) ==
    LET a == Append(rts, response_time)
    IN  IF Len(a) > ResponseTimesCap THEN FirstN(a, ResponseTimesCap) ELSE a

\* lines 72-74: append, then keep the last ResponseTimesCap entries
AppendResponseTime(rts, response_time) ==
    LET a == Append(rts, response_time)
    IN  IF Len(a) > ResponseTimesCap THEN LastN(a, ResponseTimesCap) ELSE a

\* MetricsCollector.record_request, called at time t
record_request(S, success, response_time, tool_name, t) ==
    LET m1  == [S.metrics EXCEPT !.requests_total = @ + 1]
        m2  == CountOutcome(m1, success)
        h   == CountTool(S.heap, m2.tools_executed, tool_name)
        rts == AppendResponseTime(S.response_times, response_time)
        m3  == [m2 EXCEPT !.average_response_time =
                              [num |-> SumSeq(rts), den |-> Len(rts)],
                          !.uptime_seconds = t - m2.start_time]
    IN  [metrics |-> m3, response_times |-> rts, heap |-> h]

\* MetricsCollector.get_metrics: dict.copy() copies the top level only, so
\* the copy's "tools_executed" is the same reference as the original's.
get_metrics(S) == [k \in DOMAIN S.metrics |-> S.metrics[k]]

\* What a dict of metrics shows to a reader who follows its references in h.
Shown(m, h) == [m EXCEPT !.tools_executed = h[m.tools_executed]]

CollectorState == [metrics |-> metrics, response_times |-> response_times, heap |-> heap]

(***************************************************************************)
(* A bare MetricsCollector driven by arbitrary record / snapshot calls.    *)
(***************************************************************************)
RecordToolNames == {"", "health_check", "bogus"}

\* the simple server and the registry, not in use
SimpleIdle == s_last = <<>> /\ s_count = 0

RegistryIdle == tools = <<>> /\ reg_log = <<>> /\ schemas = <<>> /\ schemas_at = 0

\* the file manager server, not in use
FileManagerIdle == fm_last = <<>> /\ fm_count = 0

\* main() at "await asyncio.wait(...)" with no signal received
MainIdle ==
    /\ shutdown_event = FALSE
    /\ signals = 0
    /\ main_pc = "wait"
    /\ event_waiter = "pending"
    /\ final_metrics = <<>>
    /\ at_event = {}

\* the production server before main() has created it
ProdIdle ==
    /\ calls = EmptyDict
    /\ nextId = 0
    /\ finished = 0
    /\ last = <<>>
    /\ gmPrev = <<>>
    /\ gmLast = <<>>
    /\ gmGap = FALSE
    /\ gmOthers = FALSE
    /\ server_task = "running"

InitMetrics ==
    /\ now \in 0..1
    /\ LET S == MetricsInit(now)
       IN  /\ metrics = S.metrics
           /\ response_times = S.response_times
           /\ heap = S.heap
    /\ recorded = <<>>
    /\ snap = <<>>
    /\ snapSeen = <<>>
    /\ snapTime = 0
    /\ ProdIdle
    /\ SimpleIdle
    /\ RegistryIdle
    /\ MainIdle
    /\ FileManagerIdle

Tick ==
    /\ now < MaxTime
    /\ now' = now + 1
    /\ UNCHANGED <<metrics, response_times, heap, recorded, snap, snapSeen, snapTime>>
    /\ UNCHANGED <<prodVars, simpleVars, regVars, mainVars, fmVars>>

MC_Record(success, response_time, tool_name) ==
    /\ Len(recorded) < MaxRecords
    /\ LET S == record_request(CollectorState, success, response_time, tool_name, now)
       IN  /\ metrics' = S.metrics
           /\ response_times' = S.response_times
           /\ heap' = S.heap
    /\ recorded' = Append(recorded, response_time)
    /\ UNCHANGED <<now, snap, snapSeen, snapTime>>
    /\ UNCHANGED <<prodVars, simpleVars, regVars, mainVars, fmVars>>

MC_GetMetrics ==
    /\ snap' = <<get_metrics(CollectorState)>>
    /\ snapSeen' = <<Shown(get_metrics(CollectorState), heap)>>
    /\ snapTime' = now
    /\ UNCHANGED <<now, metrics, response_times, heap, recorded>>
    /\ UNCHANGED <<prodVars, simpleVars, regVars, mainVars, fmVars>>

NextMetrics ==
    \/ Tick
    \/ \E success \in BOOLEAN, rt \in 0..MaxLatency, tool \in RecordToolNames :
           MC_Record(success, rt, tool)
    \/ MC_GetMetrics

SpecMetrics == InitMetrics /\ [][NextMetrics]_vars

(***************************************************************************)
(* ProductionMCPServer: arguments and tool handlers.                       *)
(***************************************************************************)
max_request_size == 1048576      \* ServerConfig.max_request_size = 1024 * 1024
MaxDataLen == 10000              \* _process_data: len(data) > 10000

\* handle_list_tools: the tools in the order of the returned list, with the
\* "required" and "additionalProperties" entries of each inputSchema
ProdTools ==
    << [name |-> "health_check", required |-> {}, properties |-> {},
        additionalProperties |-> FALSE],
       [name |-> "get_metrics", required |-> {}, properties |-> {"detailed"},
        additionalProperties |-> TRUE],
       [name |-> "process_data", required |-> {"data", "operation"},
        properties |-> {"data", "operation"}, additionalProperties |-> TRUE],
       [name |-> "system_info", required |-> {}, properties |-> {},
        additionalProperties |-> FALSE] >>

handle_list_tools == ProdTools

ToolNamesOf(tool_list) == {tool_list[i].name : i \in 1..Len(tool_list)}

SchemaOf(tool_list, name) ==
    CHOOSE t \in {tool_list[i] : i \in 1..Len(tool_list)} : t.name = name

\* bool(arguments) for arguments: dict | None
ArgsTruthy(arguments) == arguments # <<>> /\ DOMAIN arguments[1] # {}

\* arguments or {}
ArgsOrEmpty(arguments) == IF ArgsTruthy(arguments) THEN arguments[1] ELSE EmptyDict

\* dict.get(k, default)
DictGet(d, k, default) == IF k \in DOMAIN d THEN d[k] ELSE default

\* len(text) of the strings that occur as keys and operation names
TextLen(s) ==
    CASE s = "data" -> 4
      [] s = "operation" -> 9
      [] s = "detailed" -> 8
      [] s = "analyze" -> 7
      [] s = "transform" -> 9
      [] s = "validate" -> 8
      [] s = "bogus" -> 5
      [] OTHER -> 0

\* len(repr(v)) of the value stored under key k: "data" holds a str given by
\* its length, "operation" a str given by its text, "detailed" a bool
ReprLen(k, v) ==
    CASE k = "data" -> v + 2
      [] k = "operation" -> TextLen(v) + 2
      [] OTHER -> IF v THEN 4 ELSE 5

\* the share of key k in len(str(d)): 'key': value and the ", " before the next item
ItemLen(d, k) == IF k \in DOMAIN d THEN TextLen(k) + 2 + 2 + ReprLen(k, d[k]) + 2 ELSE 0

\* len(str(d)) for a non-empty dict d
StrLen(d) == 2 + ItemLen(d, "data") + ItemLen(d, "operation") + ItemLen(d, "detailed") - 2

\* A handler's outcome: a returned result, or a raised exception.  base marks
\* an exception that is not an instance of Exception (asyncio.CancelledError).
Returned(title, body) ==
    [raised |-> FALSE, base |-> FALSE, exc |-> <<>>,
     result |-> [error |-> FALSE, text |-> <<title>>, body |-> body]]

Raised(message) ==
    [raised |-> TRUE, base |-> FALSE, exc |-> message,
     result |-> [error |-> FALSE, text |-> <<>>, body |-> EmptyDict]]

CancelledError ==
    [raised |-> TRUE, base |-> TRUE, exc |-> <<"CancelledError">>,
     result |-> [error |-> FALSE, text |-> <<>>, body |-> EmptyDict]]

\* a / max(1, b) * 100 as an exact fraction
Percent(a, b) == [num |-> a * 100, den |-> IF b > 1 THEN b ELSE 1]

\* ProductionMCPServer._health_check at time t
health_check(args, S, t) ==
    Returned("Health Check",
             [ status |-> "healthy",
               uptime_seconds |-> t - S.metrics.start_time,
               requests_processed |-> S.metrics.requests_total,
               success_rate |-> Percent(S.metrics.requests_successful,
                                        S.metrics.requests_total) ])

\* ProductionMCPServer._get_metrics: json.dumps writes out the dict, following
\* the "tools_executed" reference, at the time of the call
get_metrics_tool(args, S) ==
    LET detailed == DictGet(args, "detailed", FALSE)
        m == get_metrics(S)
        summary == [ requests_total |-> m.requests_total,
                     success_rate |-> Percent(m.requests_successful, m.requests_total),
                     average_response_time_ms |->
                         [num |-> m.average_response_time.num * 1000,
                          den |-> m.average_response_time.den],
                     uptime_seconds |-> m.uptime_seconds ]
    IN  Returned("Server Metrics", IF detailed THEN Shown(m, S.heap) ELSE summary)

\* ProductionMCPServer._process_data.  The fields of the result that depend on
\* the characters of data (word_count, contains_*, is_valid, the texts) are
\* left out: data is known by its length only.
process_data(args) ==
    LET data == DictGet(args, "data", 0)
        operation == DictGet(args, "operation", "")
    IN  IF data = 0 THEN Raised(<<"Data parameter is required">>)
        ELSE IF data > MaxDataLen THEN Raised(<<"Data size too large (max 10KB)">>)
        ELSE IF operation = "analyze"
             THEN Returned("Data Processing Result",
                           [operation |-> "analyze", data_length |-> data])
        ELSE IF operation = "transform"
             THEN Returned("Data Processing Result",
                           [operation |-> "transform", length_change |-> 0])
        ELSE IF operation = "validate"
             THEN Returned("Data Processing Result",
                           [operation |-> "validate", data_type |-> "string"])
        ELSE Raised(<<"Unknown operation: ", operation>>)

\* ProductionMCPServer._system_info: "import psutil" stands before the try, so
\* a missing psutil raises out of the handler
system_info(args, psutil_found) ==
    IF psutil_found
    THEN Returned("System Information", [detail |-> "psutil"])
    ELSE Raised(<<"No module named 'psutil'">>)

(***************************************************************************)
(* ProductionMCPServer.handle_call_tool.  The handler's "await" is the     *)
(* only place where the event loop may run something else or deliver a     *)
(* cancellation, so an invocation is at most two steps: up to the await    *)
(* (Call), and from the await to the end of the finally clause (Return, or *)
(* Cancel when the task is cancelled there).                               *)
(***************************************************************************)
Oversize == <<[data |-> max_request_size, operation |-> "validate"]>>

\* The requests explored: every name the server routes, one name it does not
\* route and the empty name, each with None and with an oversize mapping, and
\* with the argument mappings that reach the branches of its handler.
ProdRequests ==
    { <<"health_check", <<>>>>, <<"health_check", Oversize>>,
      <<"health_check", <<[data |-> 5]>>>>,
      <<"get_metrics", <<>>>>, <<"get_metrics", <<[detailed |-> TRUE]>>>>,
      <<"get_metrics", Oversize>>,
      <<"process_data", <<>>>>,
      <<"process_data", <<[data |-> 5, operation |-> "analyze"]>>>>,
      <<"process_data", <<[operation |-> "analyze"]>>>>,
      <<"process_data", <<[data |-> 5]>>>>,
      <<"process_data", <<[data |-> MaxDataLen + 1, operation |-> "transform"]>>>>,
      <<"process_data", Oversize>>,
      <<"system_info", <<EmptyDict>>>>, <<"system_info", Oversize>>,
      <<"bogus", <<>>>>, <<"bogus", <<[data |-> 5]>>>>, <<"bogus", Oversize>>,
      <<"", <<>>>>, <<"", Oversize>> }

\* line 195: the request size guard
TooLarge(arguments) ==
    ArgsTruthy(arguments) /\ StrLen(arguments[1]) > max_request_size

\* lines 199-208 with the final else missing: an unknown name runs health_check
RouteNoElse(name) ==
    [await |-> TRUE, tool |-> IF name \in {"get_metrics", "process_data", "system_info"}
                              THEN name ELSE "health_check", exc |-> <<>>]

\* lines 199-208: the if/elif chain that picks the handler by name
Route(name) ==
    IF name \in {"health_check", "get_metrics", "process_data", "system_info"}
    THEN [await |-> TRUE, tool |-> name, exc |-> <<>>]
    ELSE [await |-> FALSE, tool |-> "", exc |-> <<"Unknown tool: ", name>>]

\* lines 194-208 without the size guard of line 195
RouteOnly(name, arguments) == Route(name)

\* lines 194-208: what the try block does before it awaits a handler
BeforeAwait(name, arguments) ==
    IF TooLarge(arguments)
    THEN [await |-> FALSE, tool |-> "", exc |-> <<"Request size exceeds maximum allowed">>]
    ELSE Route(name)

\* the body of the awaited handler
RunHandler(tool, args, S, t, psutil_found) ==
    CASE tool = "health_check" -> health_check(args, S, t)
      [] tool = "get_metrics" -> get_metrics_tool(args, S)
      [] tool = "process_data" -> process_data(args)
      [] tool = "system_info" -> system_info(args, psutil_found)

\* a handler returning the empty list
ResponseEmpty(item) == <<>>

\* Every return statement of the call_tool handlers of the three servers is a
\* list display holding one TextContent: return [types.TextContent(...)].
Response(item) == <<item>>

\* the text of the error envelope, f"Error executing {name}: {str(e)}"
ErrorResult(name, exc) ==
    [error |-> TRUE, text |-> <<"Error executing ", name, ": ">> \o exc, body |-> EmptyDict]

\* lines 210-219 without the except clause: every exception leaves the call
AfterTryNoExcept(name, h) ==
    IF h.raised
    THEN [outcome |-> "raised", success |-> FALSE, result |-> h.result]
    ELSE [outcome |-> "returned", success |-> TRUE, result |-> h.result]

\* lines 210-219 counting a cancelled invocation as a success
AfterTryBaseSucceeds(name, h) ==
    IF ~h.raised
    THEN [outcome |-> "returned", success |-> TRUE, result |-> h.result]
    ELSE IF h.base
         THEN [outcome |-> "raised", success |-> TRUE, result |-> h.result]
         ELSE [outcome |-> "returned", success |-> FALSE, result |-> ErrorResult(name, h.exc)]

\* lines 210-219: success = True and return result, or "except Exception"
\* returning the error envelope; an exception that is no Exception propagates
AfterTry(name, h) ==
    IF ~h.raised
    THEN [outcome |-> "returned", success |-> TRUE, result |-> h.result]
    ELSE IF h.base
         THEN [outcome |-> "raised", success |-> FALSE, result |-> h.result]
         ELSE [outcome |-> "returned", success |-> FALSE, result |-> ErrorResult(name, h.exc)]

\* lines 221-223 recording successful calls only
FinallySuccessOnly(S, success, start_time, name, t) ==
    IF success THEN record_request(S, success, t - start_time, name, t) ELSE S

\* lines 221-223 recording every call as a success
FinallyAlwaysSuccess(S, success, start_time, name, t) ==
    record_request(S, TRUE, t - start_time, name, t)

\* lines 221-223: the finally clause
Finally(S, success, start_time, name, t) ==
    record_request(S, success, t - start_time, name, t)

\* The end of one invocation: lines 210-223 applied to the outcome h of the
\* try block.  An exception other than a cancellation that leaves the handler
\* reaches the library's request loop, which may or may not survive it.
FinishCall(id, name, arguments, start_time, h, called) ==
    LET o == AfterTry(name, h)
        S == Finally(CollectorState, o.success, start_time, name, now)
        snapshot == called /\ name = "get_metrics" /\ ~h.raised
    IN  /\ metrics' = S.metrics
        /\ response_times' = S.response_times
        /\ heap' = S.heap
        /\ recorded' = IF S.metrics.requests_total = metrics.requests_total
                       THEN recorded ELSE Append(recorded, now - start_time)
        /\ finished' = finished + 1
        /\ last' = << [ id |-> id, name |-> name, arguments |-> arguments,
                        outcome |-> o.outcome, success |-> o.success,
                        result |-> o.result, called |-> called,
                        failed_inside |-> h.raised /\ ~h.base,
                        response |-> IF o.outcome = "returned"
                                     THEN Response(o.result) ELSE <<>> ] >>
        /\ gmPrev' = IF snapshot THEN gmLast ELSE gmPrev
        /\ gmLast' = IF snapshot THEN <<h.result.body>> ELSE gmLast
        /\ gmGap' = IF snapshot THEN gmOthers ELSE gmGap
        /\ gmOthers' = ~snapshot
        /\ IF o.outcome = "raised" /\ ~h.base
           THEN server_task' \in {server_task, "failed"}
           ELSE server_task' = server_task
        /\ UNCHANGED <<now, snap, snapSeen, snapTime, simpleVars, regVars, mainVars, fmVars>>

\* lines 365-378 without the end of the session task: requests are taken forever
AcceptingAlways(task) == TRUE

\* lines 365-378: server.run(...) takes requests from the transport for as long
\* as it runs; once the stream has ended or the task is cancelled it takes none
Accepting(task) == task = "running"

\* A call_tool request reaches handle_call_tool: lines 188-208.
Call(name, arguments) ==
    /\ Accepting(server_task)
    /\ nextId < MaxCalls
    /\ Cardinality(DOMAIN calls) < MaxInFlight
    /\ nextId' = nextId + 1
    /\ LET pre == BeforeAwait(name, arguments)
       IN  IF pre.await
           THEN /\ calls' = DictSet(calls, nextId + 1,
                                    [name |-> name, arguments |-> arguments,
                                     tool |-> pre.tool, start_time |-> now])
                /\ UNCHANGED <<mcVars, finished, last, gmPrev, gmLast, gmGap,
                               gmOthers, server_task, simpleVars, regVars,
                               mainVars, fmVars>>
           ELSE /\ calls' = calls
                /\ FinishCall(nextId + 1, name, arguments, now, Raised(pre.exc), FALSE)

DictDel(d, k) == [x \in DOMAIN d \ {k} |-> d[x]]

\* The awaited handler runs and handle_call_tool finishes: lines 199-223.
\* Whether "import psutil" succeeds is the environment's choice.
Return(id) ==
    /\ id \in DOMAIN calls
    /\ server_task \in {"running", "closing"}
    /\ \E psutil_found \in BOOLEAN :
         LET c == calls[id]
             h == RunHandler(c.tool, ArgsOrEmpty(c.arguments), CollectorState, now,
                             psutil_found)
         IN  FinishCall(id, c.name, c.arguments, c.start_time, h, TRUE)
    /\ calls' = DictDel(calls, id)
    /\ nextId' = nextId

\* The invocation's task is cancelled while it is suspended at the await:
\* CancelledError is thrown there, passes "except Exception" and runs finally.
Cancel(id) ==
    /\ id \in DOMAIN calls
    /\ server_task \in {"cancelling", "failing"}
    /\ LET c == calls[id]
       IN  FinishCall(id, c.name, c.arguments, c.start_time, CancelledError, TRUE)
    /\ calls' = DictDel(calls, id)
    /\ nextId' = nextId

(***************************************************************************)
(* main(), lines 386-392: server_task.cancel() followed by "await task".   *)
(* Every invocation of the cancelled task is cancelled where it waits.     *)
(***************************************************************************)
CancelServerTask ==
    /\ server_task = "running"
    /\ server_task' = "cancelling"
    /\ UNCHANGED <<mcVars, calls, nextId, finished, last, gmPrev, gmLast, gmGap, gmOthers>>
    /\ UNCHANGED <<simpleVars, regVars, mainVars, fmVars>>

Init ==
    /\ now = 0
    /\ LET S == MetricsInit(now)
       IN  /\ metrics = S.metrics
           /\ response_times = S.response_times
           /\ heap = S.heap
    /\ recorded = <<>>
    /\ snap = <<>>
    /\ snapSeen = <<>>
    /\ snapTime = 0
    /\ calls = EmptyDict
    /\ nextId = 0
    /\ finished = 0
    /\ last = <<>>
    /\ gmPrev = <<>>
    /\ gmLast = <<>>
    /\ gmGap = FALSE
    /\ gmOthers = FALSE
    /\ server_task = "running"
    /\ SimpleIdle
    /\ RegistryIdle
    /\ MainIdle
    /\ FileManagerIdle

Next ==
    \/ Tick
    \/ \E r \in ProdRequests : Call(r[1], r[2])
    \/ \E id \in DOMAIN calls : Return(id)
    \/ \E id \in DOMAIN calls : Cancel(id)
    \/ CancelServerTask

Spec == Init /\ [][Next]_vars

(***************************************************************************)
(* The scheduling of the handlers as the source has it.  None of the four  *)
(* coroutines awaited at lines 200-206 contains an await, so "await        *)
(* self._<tool>(...)" never gives control back to the event loop: from the *)
(* entry of handle_call_tool to the end of its finally clause the loop     *)
(* runs nothing else, however long the handler takes (Tick while it runs). *)
(* Spec above lets other work happen at the await and so has every         *)
(* behaviour of this specification and more.                               *)
(***************************************************************************)
\* the event loop is not inside a handler
LoopFree == calls = EmptyDict

\* The event loop takes a request and enters handle_call_tool.
SerialCall(name, arguments) ==
    /\ LoopFree
    /\ Call(name, arguments)

NextSerial ==
    \/ Tick
    \/ \E r \in ProdRequests : SerialCall(r[1], r[2])
    \/ \E id \in DOMAIN calls : Return(id)

SpecSerial == Init /\ [][NextSerial]_vars

(***************************************************************************)
(* main() and the signal handlers.  main() creates server_task, waits for  *)
(* the first of server_task and shutdown_event.wait() to complete, cancels *)
(* and awaits what is still pending, and logs the final metrics in its     *)
(* finally clause.  server_task is "running", then "closing" (the input    *)
(* stream ended: the invocations begun may still return), "failing" (the   *)
(* transport raised: the invocations are cancelled) or "cancelling"        *)
(* (main() cancelled it), and ends as "done", "failed" or "cancelled".     *)
(***************************************************************************)
ShutdownRequests ==
    { <<"health_check", <<>>>>,
      <<"process_data", <<[data |-> 5, operation |-> "analyze"]>>>>,
      <<"bogus", <<>>>> }

TaskEnded(task) == task \in {"done", "failed", "cancelled"}

Serving == main_pc = "wait" /\ server_task = "running"

Stopped == main_pc = "returned"

\* a handler that clears a set event instead of leaving it set
signal_handler_toggle(event) == ~event

\* lines 113-115: signal_handler calls self.shutdown_event.set()
signal_handler(event) == TRUE

\* SIGINT or SIGTERM is delivered: lines 111-118.  The handler is installed
\* with signal.signal, not loop.add_signal_handler: Event.set() wakes the
\* waiters with loop.call_soon, which does not interrupt a selector the loop
\* is blocked in.  So the first set() either finds the loop running, and the
\* waiting task completes, or finds it asleep, and the task stays pending
\* until the transport next wakes the loop.  set() on a set event does nothing.
Signal ==
    /\ main_pc # "returned"
    /\ signals < MaxSignals
    /\ signals' = signals + 1
    /\ shutdown_event' = signal_handler(shutdown_event)
    /\ IF ~shutdown_event /\ shutdown_event'
       THEN /\ at_event' = DOMAIN calls
            /\ IF event_waiter = "pending"
               THEN event_waiter' \in {"pending", "done"}
               ELSE event_waiter' = event_waiter
       ELSE UNCHANGED <<at_event, event_waiter>>
    /\ UNCHANGED <<main_pc, final_metrics>>
    /\ UNCHANGED <<mcVars, prodVars, simpleVars, regVars, fmVars>>

\* The transport wakes the event loop (input arrives, a worker thread
\* reports): the callbacks that set() scheduled run, line 382's task completes.
LoopWakes ==
    /\ shutdown_event
    /\ event_waiter = "pending"
    /\ event_waiter' = "done"
    /\ UNCHANGED <<shutdown_event, signals, main_pc, final_metrics, at_event>>
    /\ UNCHANGED <<mcVars, prodVars, simpleVars, regVars, fmVars>>

\* The input stream of lines 361-378 ends, or the transport raises.
TransportFault(how) ==
    /\ server_task = "running"
    /\ server_task' = how
    /\ UNCHANGED <<mcVars, calls, nextId, finished, last, gmPrev, gmLast, gmGap, gmOthers>>
    /\ UNCHANGED <<simpleVars, regVars, mainVars, fmVars>>

EndOf(task) ==
    CASE task = "closing" -> "done"
      [] task = "failing" -> "failed"
      [] task = "cancelling" -> "cancelled"

\* server_task completes once none of its invocations is left.
TaskEnds ==
    /\ server_task \in {"closing", "failing", "cancelling"}
    /\ calls = EmptyDict
    /\ server_task' = EndOf(server_task)
    /\ UNCHANGED <<mcVars, calls, nextId, finished, last, gmPrev, gmLast, gmGap, gmOthers>>
    /\ UNCHANGED <<simpleVars, regVars, mainVars, fmVars>>

\* lines 381-384 returning an empty pending set
NoPending(task, waiter) == {}

\* lines 381-384: asyncio.wait(..., return_when=FIRST_COMPLETED) returns the
\* tasks that are not done as "pending"
Pending(task, waiter) ==
    (IF TaskEnded(task) THEN {} ELSE {"server_task"}) \cup
    (IF waiter = "pending" THEN {"event_waiter"} ELSE {})

\* line 388, task.cancel(), for the session task
CancelTask(task) == IF TaskEnded(task) THEN task ELSE "cancelling"

\* lines 381-389: asyncio.wait returns when one of the two tasks is done, and
\* every pending task is cancelled.  The event waiter is suspended in
\* Event.wait() and is cancelled at once.
MainWake ==
    /\ main_pc = "wait"
    /\ event_waiter = "done" \/ TaskEnded(server_task)
    /\ LET pending == Pending(server_task, event_waiter)
       IN  /\ server_task' = IF "server_task" \in pending
                             THEN CancelTask(server_task) ELSE server_task
           /\ event_waiter' = IF "event_waiter" \in pending
                              THEN "cancelled" ELSE event_waiter
    /\ main_pc' = "await_pending"
    /\ UNCHANGED <<shutdown_event, signals, final_metrics, at_event>>
    /\ UNCHANGED <<mcVars, calls, nextId, finished, last, gmPrev, gmLast, gmGap, gmOthers>>
    /\ UNCHANGED <<simpleVars, regVars, fmVars>>

\* lines 390-403: "await task" returns for every cancelled task, the with
\* block is left and the finally clause logs get_metrics().
MainFinish ==
    /\ main_pc = "await_pending"
    /\ server_task # "cancelling"
    /\ main_pc' = "returned"
    /\ final_metrics' = Append(final_metrics, Shown(get_metrics(CollectorState), heap))
    /\ UNCHANGED <<shutdown_event, signals, event_waiter, at_event>>
    /\ UNCHANGED <<mcVars, prodVars, simpleVars, regVars, fmVars>>

NextShutdown ==
    \/ \E r \in ShutdownRequests : Call(r[1], r[2])
    \/ \E id \in DOMAIN calls : Return(id)
    \/ \E id \in DOMAIN calls : Cancel(id)
    \/ Signal
    \/ LoopWakes
    \/ \E how \in {"closing", "failing"} : TransportFault(how)
    \/ TaskEnds
    \/ MainWake
    \/ MainFinish

SpecShutdown == Init /\ [][NextShutdown]_vars

\* The event loop runs every task that is ready: a handler that can return
\* returns, a cancelled invocation unwinds, an ended session task completes,
\* and main() resumes when what it awaits is done.  Nothing obliges the
\* transport to deliver input (LoopWakes) or a signal to arrive.
SpecShutdownFair ==
    /\ SpecShutdown
    /\ WF_vars(\E id \in DOMAIN calls : Return(id))
    /\ WF_vars(\E id \in DOMAIN calls : Cancel(id))
    /\ WF_vars(TaskEnds)
    /\ WF_vars(MainWake)
    /\ WF_vars(MainFinish)

(***************************************************************************)
(* SimpleMCPServer.handle_call_tool.  A number is an exact fraction.       *)
(***************************************************************************)
\* handle_list_tools of the simple server
SimpleTools ==
    << [name |-> "echo", required |-> {"message"}, properties |-> {"message"},
        additionalProperties |-> TRUE],
       [name |-> "calculate", required |-> {"operation", "a", "b"},
        properties |-> {"operation", "a", "b"}, additionalProperties |-> TRUE],
       [name |-> "get_system_info", required |-> {}, properties |-> {},
        additionalProperties |-> FALSE] >>

Num(n) == [num |-> n, den |-> 1]

TextResult(is_error, text, body) == [error |-> is_error, text |-> text, body |-> body]

\* lines 90-95
simple_echo(arguments) ==
    LET message == IF ArgsTruthy(arguments) THEN DictGet(arguments[1], "message", "") ELSE ""
    IN  TextResult(FALSE, <<"Echo: ", message>>, EmptyDict)

\* lines 133-137 for the TypeError that arithmetic on None raises
CalcTypeError == TextResult(TRUE, <<"Error: ", "unsupported operand type(s)">>, EmptyDict)

\* lines 128-131: f"Result: {a} {operation} {b} = {result}"
CalcDone(d, result) ==
    TextResult(FALSE, <<"Result: ">>,
               [a |-> d.a, operation |-> d.operation, b |-> d.b, result |-> result])

\* lines 115-121 without the test of b: a / 0 raises ZeroDivisionError, which
\* the except clause of lines 133-137 reports as str(e)
calc_divide_unguarded(d) ==
    IF "a" \in DOMAIN d /\ "b" \in DOMAIN d
    THEN IF d.b = 0
         THEN TextResult(TRUE, <<"Error: ", "division by zero">>, EmptyDict)
         ELSE CalcDone(d, [num |-> d.a, den |-> d.b])
    ELSE CalcTypeError

\* lines 115-121: the divide branch
calc_divide(d) ==
    IF "b" \in DOMAIN d /\ d.b = 0
    THEN TextResult(TRUE, <<"Error: Division by zero">>, EmptyDict)
    ELSE IF "a" \in DOMAIN d /\ "b" \in DOMAIN d
         THEN CalcDone(d, [num |-> d.a, den |-> d.b])
         ELSE CalcTypeError

\* lines 97-137.  A missing a or b is None, and arithmetic on None raises
\* TypeError inside the try, which the except clause turns into a text.
simple_calculate(arguments) ==
    IF ~ArgsTruthy(arguments)
    THEN TextResult(TRUE, <<"Error: No arguments provided">>, EmptyDict)
    ELSE LET d == arguments[1]
             operation == DictGet(d, "operation", "None")
             has_a == "a" \in DOMAIN d
             has_b == "b" \in DOMAIN d
             type_error == CalcTypeError
             done(result) == CalcDone(d, result)
         IN  IF operation = "add"
             THEN IF has_a /\ has_b THEN done(Num(d.a + d.b)) ELSE type_error
             ELSE IF operation = "subtract"
             THEN IF has_a /\ has_b THEN done(Num(d.a - d.b)) ELSE type_error
             ELSE IF operation = "multiply"
             THEN IF has_a /\ has_b THEN done(Num(d.a * d.b)) ELSE type_error
             ELSE IF operation = "divide"
             THEN calc_divide(d)
             ELSE TextResult(TRUE, <<"Error: Unknown operation '", operation, "'">>, EmptyDict)

\* lines 90-160: the response, and whether a tool's branch was entered
simple_call_tool(name, arguments) ==
    IF name = "echo"
    THEN [result |-> simple_echo(arguments), called |-> TRUE]
    ELSE IF name = "calculate"
    THEN [result |-> simple_calculate(arguments), called |-> TRUE]
    ELSE IF name = "get_system_info"
    THEN [result |-> TextResult(FALSE, <<"System Information:">>, EmptyDict),
          called |-> TRUE]
    ELSE [result |-> TextResult(TRUE, <<"Error: Unknown tool '", name, "'">>, EmptyDict),
          called |-> FALSE]

SimpleRequests ==
    { <<"echo", <<>>>>, <<"echo", <<EmptyDict>>>>, <<"echo", <<[message |-> "hi"]>>>>,
      <<"calculate", <<>>>>,
      <<"calculate", <<[operation |-> "add", a |-> 15]>>>>,
      <<"calculate", <<[operation |-> "divide", b |-> 0]>>>>,
      <<"calculate", <<[a |-> 15, b |-> 27]>>>>,
      <<"calculate", <<[operation |-> "power", a |-> 15, b |-> 27]>>>>,
      <<"get_system_info", <<>>>>,
      <<"bogus", <<>>>>, <<"bogus", <<[message |-> "hi"]>>>> }
    \cup { <<"calculate", <<[operation |-> op, a |-> x, b |-> y]>>>> :
             op \in {"add", "subtract", "multiply", "divide"},
             x \in {15, 84}, y \in {27, 0} }

SimpleCall(name, arguments) ==
    /\ s_count < MaxSimpleCalls
    /\ s_count' = s_count + 1
    /\ LET r == simple_call_tool(name, arguments)
       IN  s_last' = << [name |-> name, arguments |-> arguments,
                         result |-> r.result, called |-> r.called,
                         response |-> Response(r.result)] >>
    /\ UNCHANGED <<mcVars, prodVars, regVars, mainVars, fmVars>>

InitIdle ==
    /\ now = 0
    /\ LET S == MetricsInit(now)
       IN  /\ metrics = S.metrics
           /\ response_times = S.response_times
           /\ heap = S.heap
    /\ recorded = <<>>
    /\ snap = <<>>
    /\ snapSeen = <<>>
    /\ snapTime = 0
    /\ ProdIdle
    /\ SimpleIdle
    /\ RegistryIdle
    /\ MainIdle
    /\ FileManagerIdle

NextSimple == \E r \in SimpleRequests : SimpleCall(r[1], r[2])

SpecSimple == InitIdle /\ [][NextSimple]_vars

(***************************************************************************)
(* ToolRegistry.  tools is a Python dict: assigning to a key that is       *)
(* present replaces its value where it stands, a new key goes to the end.  *)
(***************************************************************************)
RegistryNames == {"calculate_age", "get_weather", "search_database"}

\* the schemas a caller may pass for a name: two revisions of each
SchemaVersions == {1, 2}

KeyIndex(d, key) ==
    IF \E i \in 1..Len(d) : d[i].key = key
    THEN CHOOSE i \in 1..Len(d) : d[i].key = key
    ELSE 0

\* ToolRegistry.register_tool: self.tools[name] = {...}
register_tool(d, name, func, schema) ==
    LET entry == [key |-> name, function |-> func, schema |-> schema]
        i == KeyIndex(d, name)
    IN  IF i # 0 THEN [d EXCEPT ![i] = entry] ELSE Append(d, entry)

\* ToolRegistry.get_tool_schemas
get_tool_schemas(d) == [i \in 1..Len(d) |-> d[i].schema]

RegisterTool(name, version) ==
    /\ Len(reg_log) < MaxRegistrations
    /\ LET schema == [name |-> name, version |-> version]
       IN  /\ tools' = register_tool(tools, name, version, schema)
           /\ reg_log' = Append(reg_log, schema)
    /\ UNCHANGED <<schemas, schemas_at, mcVars, prodVars, simpleVars, mainVars, fmVars>>

GetToolSchemas ==
    /\ schemas' = <<get_tool_schemas(tools)>>
    /\ schemas_at' = Len(reg_log)
    /\ UNCHANGED <<tools, reg_log, mcVars, prodVars, simpleVars, mainVars, fmVars>>

NextRegistry ==
    \/ \E name \in RegistryNames, version \in SchemaVersions : RegisterTool(name, version)
    \/ GetToolSchemas

SpecRegistry == InitIdle /\ [][NextRegistry]_vars

(***************************************************************************)
(* FileManagerMCPServer.  A path is a Python str, modelled as the sequence *)
(* of its characters, so that abspath and startswith work on the text as   *)
(* they do in the source.  The file system belongs to the environment:     *)
(* what a call finds at its path (nothing, a text file, a file that is not *)
(* UTF-8, a directory) is chosen anew for every call, and what the call    *)
(* does to the file system is recorded in the ops of its result.  The      *)
(* directory names of main() are shortened: the working directory is /w,   *)
(* ~/Documents is /h/d and /tmp is /t.  No path begins with two slashes    *)
(* and no symbolic link is followed.                                       *)
(***************************************************************************)
Cwd == <<"/", "w">>

\* lines 417-421: the allow-list that main() passes to the constructor
allowed_directories == << Cwd, <<"/", "h", "/", "d">>, <<"/", "t">> >>

\* str.split("/") from position i on, cur being the component begun
RECURSIVE Split(_, _, _)
Split(path, i, cur) ==
    IF i > Len(path) THEN <<cur>>
    ELSE IF path[i] = "/" THEN <<cur>> \o Split(path, i + 1, <<>>)
    ELSE Split(path, i + 1, Append(cur, path[i]))

\* the loop of posixpath.normpath for an absolute path: "" and "." are
\* skipped, ".." removes the component before it, if there is one
RECURSIVE Norm(_, _, _)
Norm(comps, i, acc) ==
    IF i > Len(comps) THEN acc
    ELSE IF comps[i] = <<>> \/ comps[i] = <<".">> THEN Norm(comps, i + 1, acc)
    ELSE IF comps[i] = <<".", ".">>
         THEN Norm(comps, i + 1, IF Len(acc) > 0 THEN FirstN(acc, Len(acc) - 1) ELSE acc)
    ELSE Norm(comps, i + 1, Append(acc, comps[i]))

RECURSIVE Join(_, _)
Join(comps, i) ==
    IF i > Len(comps) THEN <<>> ELSE <<"/">> \o comps[i] \o Join(comps, i + 1)

\* the components of os.path.abspath(path)
AbsComponents(path) ==
    Norm(Split(IF Len(path) > 0 /\ path[1] = "/" THEN path ELSE Cwd \o <<"/">> \o path,
               1, <<>>), 1, <<>>)

\* os.path.abspath(path): normpath(join(os.getcwd(), path))
abspath(path) ==
    IF AbsComponents(path) = <<>> THEN <<"/">> ELSE Join(AbsComponents(path), 1)

\* str.startswith
startswith(str, prefix) ==
    Len(prefix) <= Len(str) /\ SubSeq(str, 1, Len(prefix)) = prefix

\* FileManagerMCPServer._is_path_allowed, lines 32-39
is_path_allowed(path) ==
    \E i \in 1..Len(allowed_directories) :
        startswith(abspath(path), abspath(allowed_directories[i]))

\* posixpath.dirname
dirname(path) ==
    LET slashes == {i \in 1..Len(path) : path[i] = "/"}
        i == IF slashes = {} THEN 0 ELSE CHOOSE k \in slashes : \A j \in slashes : j <= k
        head == FirstN(path, i)
        kept == {k \in 1..Len(head) : head[k] # "/"}
    IN  IF kept = {} THEN head
        ELSE FirstN(head, CHOOSE k \in kept : \A j \in kept : j <= k)

\* handle_list_tools of the file manager, lines 44-156
FileTools ==
    << [name |-> "read_file", required |-> {"filepath"}, properties |-> {"filepath"},
        additionalProperties |-> TRUE],
       [name |-> "write_file", required |-> {"filepath", "content"},
        properties |-> {"filepath", "content", "mode"}, additionalProperties |-> TRUE],
       [name |-> "list_directory", required |-> {"directory"},
        properties |-> {"directory", "include_hidden"}, additionalProperties |-> TRUE],
       [name |-> "search_files", required |-> {"pattern"},
        properties |-> {"pattern", "directory"}, additionalProperties |-> TRUE],
       [name |-> "get_file_info", required |-> {"filepath"}, properties |-> {"filepath"},
        additionalProperties |-> TRUE],
       [name |-> "create_directory", required |-> {"directory"},
        properties |-> {"directory", "recursive"}, additionalProperties |-> TRUE] >>

\* what a call may find at its path
FileKinds == {"none", "file", "binary", "dir"}

\* what glob.glob may return
GlobResults ==
    { <<>>,
      << <<"/", "t", "/", "f">> >>,
      << <<"/", "t", "/", "f">>, <<"/", "o", "/", "f">> >> }

\* a result text f"{before}{path}{after}", with the file system operations done
FmText(before, path, after, ops) ==
    [raised |-> FALSE, before |-> before, path |-> path, after |-> after, ops |-> ops]

\* args[key] for a key that is absent: KeyError(key)
FmKeyError(key) ==
    [raised |-> TRUE, before |-> "'", path |-> <<>>, after |-> key \o "'", ops |-> <<>>]

\* an exception raised by the operating system after ops
FmOSError(message, path, ops) ==
    [raised |-> TRUE, before |-> message, path |-> path, after |-> "", ops |-> ops]

AccessDenied(path) == FmText("Error: Access denied to ", path, "", <<>>)

\* FileManagerMCPServer._read_file, lines 195-230
read_file(args, kind) ==
    IF "filepath" \notin DOMAIN args THEN FmKeyError("filepath")
    ELSE LET filepath == args.filepath
         IN  IF ~is_path_allowed(filepath) THEN AccessDenied(filepath)
             ELSE IF kind = "none"
                  THEN FmText("Error: File not found: ", filepath, "", <<>>)
             ELSE IF kind = "dir"
                  THEN FmText("Error: ", filepath, " is not a file", <<>>)
             ELSE IF kind = "binary"
                  THEN FmText("Error: Cannot read ", filepath, " as text (binary file?)",
                              <<"open_r">>)
             ELSE FmText("Content of ", filepath, ":\n\n<content>", <<"open_r">>)

\* FileManagerMCPServer._write_file, lines 232-258
write_file(args, kind, parent_exists) ==
    IF "filepath" \notin DOMAIN args THEN FmKeyError("filepath")
    ELSE IF "content" \notin DOMAIN args THEN FmKeyError("content")
    ELSE LET filepath == args.filepath
             mode == DictGet(args, "mode", "write")
             made == IF dirname(filepath) # <<>> /\ ~parent_exists
                     THEN <<"makedirs">> ELSE <<>>
             write_mode == IF mode = "append" THEN "open_a" ELSE "open_w"
         IN  IF ~is_path_allowed(filepath) THEN AccessDenied(filepath)
             ELSE IF kind = "dir"
                  THEN FmOSError("[Errno 21] Is a directory: ", filepath,
                                 made \o <<write_mode>>)
             ELSE FmText(IF mode = "append" THEN "Appended to " ELSE "Written to ",
                         filepath, " successfully (<n> characters)",
                         made \o <<write_mode>>)

\* FileManagerMCPServer._list_directory, lines 260-310
list_directory(args, kind) ==
    IF "directory" \notin DOMAIN args THEN FmKeyError("directory")
    ELSE LET directory == args.directory
         IN  IF ~is_path_allowed(directory) THEN AccessDenied(directory)
             ELSE IF kind = "none"
                  THEN FmText("Error: Directory not found: ", directory, "", <<>>)
             ELSE IF kind # "dir"
                  THEN FmText("Error: ", directory, " is not a directory", <<>>)
             ELSE FmText("Contents of ", directory, ":\n\n<items>", <<"listdir">>)

\* the matches that _search_files keeps, line 327
RECURSIVE AllowedMatches(_, _)
AllowedMatches(matches, i) ==
    IF i > Len(matches) THEN <<>>
    ELSE (IF is_path_allowed(matches[i]) THEN <<matches[i]>> ELSE <<>>)
         \o AllowedMatches(matches, i + 1)

\* FileManagerMCPServer._search_files, lines 312-347
search_files(args, matches) ==
    IF "pattern" \notin DOMAIN args THEN FmKeyError("pattern")
    ELSE LET directory == DictGet(args, "directory", <<".">>)
             allowed_matches == AllowedMatches(matches, 1)
         IN  IF ~is_path_allowed(directory) THEN AccessDenied(directory)
             ELSE IF allowed_matches = <<>>
                  THEN FmText("No files found matching pattern: <pattern>", <<>>, "",
                              <<"glob">>)
             ELSE [raised |-> FALSE, before |-> "Found <n> files matching '<pattern>':",
                   path |-> <<>>, after |-> "", ops |-> <<"glob">>,
                   lines |-> allowed_matches]

\* FileManagerMCPServer._get_file_info, lines 349-386
get_file_info(args, kind) ==
    IF "filepath" \notin DOMAIN args THEN FmKeyError("filepath")
    ELSE LET filepath == args.filepath
         IN  IF ~is_path_allowed(filepath) THEN AccessDenied(filepath)
             ELSE IF kind = "none"
                  THEN FmText("Error: Path not found: ", filepath, "", <<>>)
             ELSE FmText("File Information:\n<info of ", filepath, ">", <<"stat">>)

\* FileManagerMCPServer._create_directory, lines 388-410
create_directory(args, kind) ==
    IF "directory" \notin DOMAIN args THEN FmKeyError("directory")
    ELSE LET directory == args.directory
         IN  IF ~is_path_allowed(directory) THEN AccessDenied(directory)
             ELSE IF kind # "none"
                  THEN FmText("Directory already exists: ", directory, "", <<>>)
             ELSE FmText("Created directory: ", directory, "", <<"makedirs">>)

\* handle_call_tool of the file manager, lines 158-193
fm_call_tool(name, arguments, kind, parent_exists, matches) ==
    IF ~ArgsTruthy(arguments)
    THEN FmText("Error: No arguments provided", <<>>, "", <<>>)
    ELSE LET args == arguments[1]
             r == CASE name = "read_file" -> read_file(args, kind)
                    [] name = "write_file" -> write_file(args, kind, parent_exists)
                    [] name = "list_directory" -> list_directory(args, kind)
                    [] name = "search_files" -> search_files(args, matches)
                    [] name = "get_file_info" -> get_file_info(args, kind)
                    [] name = "create_directory" -> create_directory(args, kind)
                    [] OTHER -> FmText("Error: Unknown tool '" \o name \o "'", <<>>, "", <<>>)
         IN  IF r.raised
             THEN FmText("Error executing " \o name \o ": " \o r.before, r.path, r.after,
                         r.ops)
             ELSE r

\* The paths explored: inside a root, a root itself, relative to the working
\* directory, outside every root (directly and by way of ".."), and a sibling
\* of the root /t whose name begins with the root's text.
FilePaths ==
    { <<"/", "t", "/", "f">>, <<"/", "t">>, <<"f">>,
      <<"/", "o", "/", "f">>, <<"/", "t", "/", ".", ".", "/", "o", "/", "f">>,
      <<".", ".", "/", "o", "/", "f">>,
      <<"/", "t", "x", "/", "f">> }

FileRequests ==
    { <<"read_file", <<>>>>, <<"read_file", <<EmptyDict>>>>,
      <<"read_file", <<[content |-> 3]>>>>, <<"bogus", <<[filepath |-> <<"f">>]>>>>,
      <<"bogus", <<>>>>, <<"bogus", <<EmptyDict>>>> }
    \cup { <<"read_file", <<[filepath |-> path]>>>> : path \in FilePaths }
    \cup { <<"get_file_info", <<[filepath |-> path]>>>> : path \in FilePaths }
    \cup { <<"write_file", <<[filepath |-> <<"/", "t", "/", "f">>, content |-> 3]>>>>,
           <<"write_file", <<[filepath |-> <<"f">>, content |-> 3, mode |-> "append"]>>>>,
           <<"write_file", <<[filepath |-> <<"/", "o", "/", "f">>, content |-> 3]>>>>,
           <<"write_file", <<[filepath |-> <<"/", "t", "/", "f">>]>>>>,
           <<"list_directory", <<[directory |-> <<"/", "t">>]>>>>,
           <<"list_directory", <<[directory |-> <<"/", "o">>]>>>>,
           <<"search_files", <<[pattern |-> 3]>>>>,
           <<"search_files", <<[pattern |-> 3, directory |-> <<"/", "o">>]>>>>,
           <<"search_files", <<[directory |-> <<"/", "t">>]>>>>,
           <<"create_directory", <<[directory |-> <<"/", "t", "/", "f">>]>>>>,
           <<"create_directory", <<[directory |-> <<"/", "o", "/", "f">>]>>>> }

\* One call_tool request is handled by the file manager.
FileCall(name, arguments) ==
    /\ fm_count < MaxFileCalls
    /\ fm_count' = fm_count + 1
    /\ \E kind \in FileKinds, parent_exists \in BOOLEAN, matches \in GlobResults :
          LET r == fm_call_tool(name, arguments, kind, parent_exists, matches)
          IN  fm_last' = << [name |-> name, arguments |-> arguments, kind |-> kind,
                             result |-> r, response |-> Response(r)] >>
    /\ UNCHANGED <<mcVars, prodVars, simpleVars, regVars, mainVars>>

NextFiles == \E r \in FileRequests : FileCall(r[1], r[2])

SpecFiles == InitIdle /\ [][NextFiles]_vars

(***************************************************************************)
(* The three servers side by side.  Each is a process of its own, so a     *)
(* behaviour follows one of them and leaves the other two unused.          *)
(***************************************************************************)
NextServers ==
    \/ nextId = 0 /\ fm_count = 0 /\ NextSimple
    \/ nextId = 0 /\ s_count = 0 /\ NextFiles
    \/ s_count = 0 /\ fm_count = 0 /\ NextSerial

SpecServers == Init /\ [][NextServers]_vars

(***************************************************************************)
(* Properties of the MetricsCollector.                                     *)
(***************************************************************************)

\* C5: every record_request call adds 1 to requests_total and 1 to exactly one
\* of requests_successful / requests_failed; requests_total is always their
\* sum and no counter ever decreases.
C5_CountersPartition ==
    /\ [](metrics.requests_total =
              metrics.requests_successful + metrics.requests_failed)
    /\ [][ /\ metrics'.requests_total >= metrics.requests_total
           /\ metrics'.requests_successful >= metrics.requests_successful
           /\ metrics'.requests_failed >= metrics.requests_failed
           /\ (recorded' # recorded =>
                  /\ metrics'.requests_total = metrics.requests_total + 1
                  /\ \/ /\ metrics'.requests_successful = metrics.requests_successful + 1
                        /\ metrics'.requests_failed = metrics.requests_failed
                     \/ /\ metrics'.requests_successful = metrics.requests_successful
                        /\ metrics'.requests_failed = metrics.requests_failed + 1)
         ]_vars

\* Both kinds of outcome have been recorded.
C5_Witness ==
    /\ metrics.requests_successful >= 1
    /\ metrics.requests_failed >= 1

\* C6: the rolling buffer never holds more than the cap and always equals the
\* most recent min(n, cap) recorded latencies in arrival order (the oldest
\* entry is the one evicted).
C6_RollingBuffer ==
    /\ Len(response_times) <= ResponseTimesCap
    /\ Len(response_times) =
           (IF Len(recorded) < ResponseTimesCap THEN Len(recorded) ELSE ResponseTimesCap)
    /\ \A i \in 1..Len(response_times) :
           response_times[i] = recorded[Len(recorded) - Len(response_times) + i]

\* An eviction has happened and the evicted entry differs from the newest one.
C6_Witness ==
    /\ Len(recorded) > ResponseTimesCap
    /\ recorded[1] # recorded[Len(recorded)]

\* C8: a snapshot already returned is never changed by a later record call
\* (its per-tool counts included).
C8_SnapshotImmutable ==
    snap # <<>> => Shown(snap[1], heap) = snapSeen[1]

\* C9: a snapshot's uptime is the time of the snapshot minus start_time.
C9_UptimeIsElapsed ==
    snap # <<>> => snap[1].uptime_seconds = snapTime - snap[1].start_time

(***************************************************************************)
(* Properties of ProductionMCPServer.handle_call_tool.                     *)
(***************************************************************************)
Registered(name) == name \in ToolNamesOf(handle_list_tools)

UnknownToolResult(name) == ErrorResult(name, <<"Unknown tool: ", name>>)

TooLargeResult(name) == ErrorResult(name, <<"Request size exceeds maximum allowed">>)

\* a step in which one invocation finishes
Finishes == finished' = finished + 1

\* C1: every invocation is reported to the MetricsCollector exactly once,
\* whatever its outcome: requests_total equals the number of invocations that
\* have finished.
C1_ReportedOnce ==
    metrics.requests_total = finished

\* A cancelled invocation and an earlier one have both finished.
C1_Witness ==
    /\ finished >= 2
    /\ last[1].outcome = "raised"
    /\ metrics.requests_successful >= 1

\* C2 (as stated): an invocation naming an unregistered tool, with any
\* arguments, is answered with the unknown-tool failure, adds 1 to
\* requests_failed and leaves requests_successful unchanged.
C2_UnknownToolAnyArguments ==
    [][ (Finishes /\ ~Registered(last'[1].name)) =>
            /\ last'[1].outcome = "returned"
            /\ last'[1].result = UnknownToolResult(last'[1].name)
            /\ metrics'.requests_failed = metrics.requests_failed + 1
            /\ metrics'.requests_successful = metrics.requests_successful
      ]_vars

\* C2 (amended): an invocation naming an unregistered tool is answered with a
\* failure, adds 1 to requests_failed and leaves requests_successful
\* unchanged; the failure is the unknown-tool failure unless the arguments
\* exceed max_request_size, in which case it is the request-size failure.
C2_UnknownTool ==
    [][ (Finishes /\ ~Registered(last'[1].name)) =>
            /\ last'[1].outcome = "returned"
            /\ last'[1].result =
                   (IF TooLarge(last'[1].arguments)
                    THEN TooLargeResult(last'[1].name)
                    ELSE UnknownToolResult(last'[1].name))
            /\ metrics'.requests_failed = metrics.requests_failed + 1
            /\ metrics'.requests_successful = metrics.requests_successful
      ]_vars

\* An unregistered name with arguments has been answered after an earlier call.
C2_Witness ==
    /\ last # <<>>
    /\ last[1].name = "bogus"
    /\ last[1].arguments = <<[data |-> 5]>>
    /\ last[1].result = UnknownToolResult("bogus")
    /\ metrics.requests_failed = 1
    /\ metrics.requests_successful = 1

\* C4: a failure inside the dispatch of a call never escapes it: the caller
\* gets a failure value, and the session keeps serving.
C4_FailureContained ==
    /\ [](server_task # "failed")
    /\ [][ (Finishes /\ last'[1].failed_inside) =>
               /\ last'[1].outcome = "returned"
               /\ last'[1].result.error
               /\ ~last'[1].success
               /\ server_task' = server_task
         ]_vars

\* A handler has raised after an earlier invocation succeeded; the caller got
\* the error envelope and the session is still serving.
C4_Witness ==
    /\ last # <<>>
    /\ last[1].id = 2
    /\ last[1].called
    /\ last[1].failed_inside
    /\ last[1].result.error
    /\ metrics.requests_successful = 1
    /\ server_task = "running"

\* the counters that a get_metrics payload carries: requests_total always, the
\* others when the payload is the detailed one
Detailed(p) == "tools_executed" \in DOMAIN p

\* C7 (as stated): two get_metrics calls with no other invocation between them
\* return identical counters, and uptime does not decrease.
C7_SameCounters ==
    (gmPrev # <<>> /\ ~gmGap) =>
        /\ gmLast[1].requests_total = gmPrev[1].requests_total
        /\ (Detailed(gmPrev[1]) /\ Detailed(gmLast[1])) =>
               /\ gmLast[1].requests_successful = gmPrev[1].requests_successful
               /\ gmLast[1].requests_failed = gmPrev[1].requests_failed
               /\ gmLast[1].tools_executed = gmPrev[1].tools_executed
        /\ gmLast[1].uptime_seconds >= gmPrev[1].uptime_seconds

\* C7 (amended): two get_metrics calls with no other invocation between them
\* return counters that differ by the first call itself, and by nothing else:
\* requests_total, requests_successful and the per-tool count of get_metrics
\* are 1 higher in the second snapshot, requests_failed and the other per-tool
\* counts are identical; uptime does not decrease.
C7_CountersDifferByTheCall ==
    (gmPrev # <<>> /\ ~gmGap) =>
        /\ gmLast[1].requests_total = gmPrev[1].requests_total + 1
        /\ (Detailed(gmPrev[1]) /\ Detailed(gmLast[1])) =>
               /\ gmLast[1].requests_successful = gmPrev[1].requests_successful + 1
               /\ gmLast[1].requests_failed = gmPrev[1].requests_failed
               /\ gmLast[1].tools_executed =
                      DictSet(gmPrev[1].tools_executed, "get_metrics",
                              DictGet(gmPrev[1].tools_executed, "get_metrics", 0) + 1)
        /\ gmLast[1].uptime_seconds >= gmPrev[1].uptime_seconds

\* Two detailed snapshots in a row, the second taken after time has passed.
C7_Witness ==
    /\ gmPrev # <<>>
    /\ ~gmGap
    /\ Detailed(gmPrev[1])
    /\ Detailed(gmLast[1])
    /\ gmLast[1].uptime_seconds > gmPrev[1].uptime_seconds

(***************************************************************************)
(* Properties of argument validation and of discovery.                     *)
(***************************************************************************)
MissingRequired(tool_list, name, arguments) ==
    /\ name \in ToolNamesOf(tool_list)
    /\ ~(SchemaOf(tool_list, name).required \subseteq DOMAIN ArgsOrEmpty(arguments))

\* C3: an invocation whose arguments lack a field that the tool's schema
\* lists as required is answered with a failure, and the tool's handler is
\* never entered.
C3_RequiredFieldsChecked ==
    (s_last # <<>> /\ MissingRequired(SimpleTools, s_last[1].name, s_last[1].arguments)) =>
        /\ s_last[1].result.error
        /\ ~s_last[1].called

\* the specs that a registry refusing duplicate names holds after the
\* registrations log[1..n]: the first spec registered under each name
RECURSIVE FirstPerName(_, _)
FirstPerName(log, n) ==
    IF n = 0 THEN <<>>
    ELSE LET before == FirstPerName(log, n - 1)
         IN  IF \E i \in 1..Len(before) : before[i].name = log[n].name
             THEN before
             ELSE Append(before, log[n])

\* C10: discovery returns exactly the registered tool specs, each name once,
\* in registration order, for any sequence of registrations.
C10_DiscoveryIsRegistrations ==
    schemas # <<>> => schemas[1] = FirstPerName(reg_log, schemas_at)

\* C11: registering a tool under a name that is already present leaves the
\* registry unchanged: the earlier spec and handler stay bound to that name.
C11_DuplicateLeavesRegistry ==
    [][ (/\ Len(reg_log') = Len(reg_log) + 1
         /\ KeyIndex(tools, reg_log'[Len(reg_log')].name) # 0)
        => tools' = tools ]_vars

(***************************************************************************)
(* Properties of main() and of shutdown.                                   *)
(***************************************************************************)

C13_AbandonedNotSuccessful ==
    /\ [][ (Finishes /\ last'[1].called /\ last'[1].outcome = "raised")
           => /\ metrics'.requests_successful = metrics.requests_successful
              /\ metrics'.requests_failed = metrics.requests_failed + 1 ]_vars
    /\ [](final_metrics # <<>> =>
            /\ calls = EmptyDict
            /\ final_metrics[1].requests_successful = metrics.requests_successful)

C13_Witness ==
    /\ Stopped
    /\ server_task = "cancelled"
    /\ last # <<>> /\ last[1].called /\ last[1].outcome = "raised"
    /\ last[1].id \in at_event
    /\ final_metrics[1].requests_failed >= 1

\* C14: the shutdown event is one-shot: the first termination signal sets
\* it, it is never cleared, and a later signal changes neither the event nor
\* the state of the session, its tasks or its invocations.
C14_ShutdownEventOneShot ==
    [][ /\ (signals' = signals + 1 /\ ~shutdown_event) => shutdown_event'
        /\ shutdown_event => shutdown_event'
        /\ (signals' = signals + 1 /\ shutdown_event) =>
              UNCHANGED <<shutdown_event, main_pc, server_task, event_waiter,
                          calls, nextId, final_metrics, metrics>> ]_vars

C14_Witness == signals = 2 /\ shutdown_event /\ Serving

\* C15: whenever a termination signal arrives while the server is serving,
\* the session eventually reaches Stopped, even if no further request ever
\* arrives on the transport.
C15_SignalStopsSession == shutdown_event ~> Stopped

\* C16: once the session has left Serving, no new request is accepted or
\* dispatched to a handler, and the session never returns to Serving.
C16_NoRequestAfterServing ==
    [][ ~Serving =>
          /\ nextId' = nextId
          /\ DOMAIN calls' \subseteq DOMAIN calls
          /\ ~Serving' ]_vars

C16_Witness ==
    /\ server_task = "done"
    /\ main_pc = "wait"
    /\ nextId = 1
    /\ finished = 1

\* C17: on every path by which the session ends, the final metrics snapshot
\* is emitted exactly once, and after the session task has stopped.
C17_FinalMetricsOnce ==
    /\ Len(final_metrics) <= 1
    /\ Stopped => Len(final_metrics) = 1
    /\ final_metrics # <<>> =>
          /\ TaskEnded(server_task)
          /\ calls = EmptyDict
          /\ final_metrics[1] = Shown(get_metrics(CollectorState), heap)

C17_Witness ==
    /\ Stopped
    /\ server_task = "failed"
    /\ final_metrics[1].requests_total = 2

\* what is left of the session when main() has returned
EndState ==
    [ session |-> IF TaskEnded(server_task) THEN "stopped" ELSE "live",
      waiters_pending |-> Pending(server_task, event_waiter),
      in_flight |-> DOMAIN calls,
      emitted |-> Len(final_metrics) ]

\* C18: a transport fault ends the session as a shutdown signal does: the
\* remaining waiter is torn down, the session task has stopped and the final
\* metrics have been emitted once, whatever made main() wake.
C18_SameEndState ==
    Stopped => EndState = [ session |-> "stopped", waiters_pending |-> {},
                            in_flight |-> {}, emitted |-> 1 ]

C18_Witness ==
    /\ Stopped
    /\ ~shutdown_event
    /\ server_task = "done"
    /\ event_waiter = "cancelled"

(***************************************************************************)
(* Properties of the request size guard.                                   *)
(***************************************************************************)

\* C19: a call whose arguments exceed max_request_size is answered with the
\* request-size failure without any tool handler being entered, whatever the
\* tool name, and is counted as one failed request.
C19_OversizeRejected ==
    [][ (Finishes /\ TooLarge(last'[1].arguments)) =>
            /\ ~last'[1].called
            /\ last'[1].outcome = "returned"
            /\ last'[1].result = TooLargeResult(last'[1].name)
            /\ metrics'.requests_failed = metrics.requests_failed + 1
            /\ metrics'.requests_successful = metrics.requests_successful
            /\ metrics'.requests_total = metrics.requests_total + 1
      ]_vars

\* An oversize call to a registered tool has been rejected after a call that
\* succeeded.
C19_Witness ==
    /\ last # <<>>
    /\ last[1].name = "process_data"
    /\ TooLarge(last[1].arguments)
    /\ last[1].result = TooLargeResult("process_data")
    /\ ~last[1].called
    /\ metrics.requests_failed = 1
    /\ metrics.requests_successful = 1

(***************************************************************************)
(* Properties of the file manager's allow-list.                            *)
(***************************************************************************)

\* is seq a component-wise prefix of the path's components
ComponentsPrefix(root, path) ==
    /\ Len(root) <= Len(path)
    /\ SubSeq(path, 1, Len(root)) = root

\* the path names an allowed root or something in the directory tree of one
InsideSomeRoot(path) ==
    \E i \in 1..Len(allowed_directories) :
        ComponentsPrefix(AbsComponents(allowed_directories[i]), AbsComponents(path))

\* C20: read_file called with a path outside all allowed roots yields the
\* access-denied failure, whatever is at that path, and opens no file.
C20_OutsideRootsDenied ==
    (/\ fm_last # <<>>
     /\ fm_last[1].name = "read_file"
     /\ ArgsTruthy(fm_last[1].arguments)
     /\ "filepath" \in DOMAIN fm_last[1].arguments[1]
     /\ ~InsideSomeRoot(fm_last[1].arguments[1].filepath))
    => /\ fm_last[1].result = AccessDenied(fm_last[1].arguments[1].filepath)
       /\ fm_last[1].result.ops = <<>>

(***************************************************************************)
(* Properties of the simple server's calculate tool.                       *)
(***************************************************************************)

\* C21: calculate with operation add, a = 15, b = 27 succeeds and reports 42;
\* with operation divide and b = 0 it answers, for every a (also a missing
\* one), with the error text that names division by zero.
C21_CalculateAddDivide ==
    (s_last # <<>> /\ s_last[1].name = "calculate" /\ ArgsTruthy(s_last[1].arguments)) =>
        LET d == s_last[1].arguments[1]
        IN  /\ (DOMAIN d = {"operation", "a", "b"} /\ d.operation = "add"
                   /\ d.a = 15 /\ d.b = 27)
               => s_last[1].result = TextResult(FALSE, <<"Result: ">>,
                       [a |-> 15, operation |-> "add", b |-> 27, result |-> Num(42)])
            /\ ({"operation", "b"} \subseteq DOMAIN d /\ d.operation = "divide" /\ d.b = 0)
               => s_last[1].result =
                      TextResult(TRUE, <<"Error: Division by zero">>, EmptyDict)

C21_Witness ==
    /\ s_count = 2
    /\ s_last[1].name = "calculate"
    /\ s_last[1].arguments = <<[operation |-> "divide", a |-> 84, b |-> 0]>>
    /\ s_last[1].result.error

(***************************************************************************)
(* Properties of concurrent dispatch.                                      *)
(***************************************************************************)

\* C22: while an invocation is in flight in its handler, a request that
\* arrived later can be dispatched (and so can be answered first).
C22_LaterRequestDispatched ==
    (calls # EmptyDict /\ Accepting(server_task) /\ nextId < MaxCalls)
        => ENABLED (\E r \in ProdRequests : SerialCall(r[1], r[2]))

(***************************************************************************)
(* Properties of the responses and of the routing of the three servers.    *)
(***************************************************************************)

\* the arguments carry a key that the schema of the tool does not declare
Undeclared(tool_list, name, arguments) ==
    /\ name \in ToolNamesOf(tool_list)
    /\ ~(DOMAIN ArgsOrEmpty(arguments) \subseteq SchemaOf(tool_list, name).properties)

\* C23: an invocation that carries an undeclared argument is answered with a
\* failure, without its handler being entered, if the schema of the tool
\* declares additionalProperties: false, and is accepted otherwise.
C23_AdditionalProperties ==
    [][ (Finishes /\ Undeclared(handle_list_tools, last'[1].name, last'[1].arguments)
                  /\ ~TooLarge(last'[1].arguments)) =>
            IF SchemaOf(handle_list_tools, last'[1].name).additionalProperties
            THEN last'[1].called
            ELSE last'[1].result.error /\ ~last'[1].called
      ]_vars

\* C24: every response of a call_tool handler, in each of the three
\* servers, is a non-empty sequence of content items.
C24_ResponseNonEmpty ==
    /\ s_last # <<>> => Len(s_last[1].response) >= 1
    /\ fm_last # <<>> => Len(fm_last[1].response) >= 1
    /\ (last # <<>> /\ last[1].outcome = "returned") => Len(last[1].response) >= 1

\* The file manager has answered a request without arguments with an error.
C24_Witness ==
    /\ fm_last # <<>>
    /\ ~ArgsTruthy(fm_last[1].arguments)
    /\ fm_last[1].response = <<FmText("Error: No arguments provided", <<>>, "", <<>>)>>

(***************************************************************************)
(* Further properties of the MetricsCollector.                             *)
(***************************************************************************)

\* the sum of the values of a dict of numbers
RECURSIVE SumDict(_)
SumDict(d) ==
    IF DOMAIN d = {} THEN 0
    ELSE LET k == CHOOSE x \in DOMAIN d : TRUE
         IN  d[k] + SumDict([x \in DOMAIN d \ {k} |-> d[x]])

\* C25: every record_request call adds 1 to the count of its tool name, for
\* every name including the empty one, so the per-tool counts always sum to
\* requests_total.
C25_PerToolCountsSum ==
    SumDict(heap[metrics.tools_executed]) = metrics.requests_total

\* the latencies that a buffer of ResponseTimesCap entries holds after the
\* record_request calls made so far
Held == LastN(recorded, IF Len(recorded) < ResponseTimesCap
                        THEN Len(recorded) ELSE ResponseTimesCap)

\* C26: after every record_request call, average_response_time is the
\* arithmetic mean of the latencies the rolling buffer holds after eviction:
\* the most recent ones only.
C26_AverageOfBuffer ==
    Len(recorded) >= 1 =>
        /\ metrics.average_response_time.den = Len(Held)
        /\ metrics.average_response_time.num = SumSeq(Held)
        /\ Held = response_times

\* A latency of 1 has been evicted and the average no longer shows it.
C26_Witness ==
    /\ Len(recorded) > ResponseTimesCap
    /\ recorded[1] = 1
    /\ metrics.average_response_time.num = 0

\* the unknown-tool answers of the simple server and of the file manager
SimpleUnknownTool(name) ==
    TextResult(TRUE, <<"Error: Unknown tool '", name, "'">>, EmptyDict)

FmUnknownTool(name) == FmText("Error: Unknown tool '" \o name \o "'", <<>>, "", <<>>)

\* C27: in each server, an invocation that names an unregistered tool is
\* answered with the unknown-tool error, whatever its arguments are (none,
\* empty or oversize included).
C27_NameResolvedFirst ==
    /\ (s_last # <<>> /\ s_last[1].name \notin ToolNamesOf(SimpleTools))
           => s_last[1].result = SimpleUnknownTool(s_last[1].name)
    /\ (fm_last # <<>> /\ fm_last[1].name \notin ToolNamesOf(FileTools))
           => fm_last[1].result = FmUnknownTool(fm_last[1].name)
    /\ (last # <<>> /\ ~Registered(last[1].name))
           => last[1].result = UnknownToolResult(last[1].name)

\* C29: in each server the names that discovery lists are the names that
\* call_tool routes: a listed name is never answered with the unknown-tool
\* error and a name that is not listed always is.
C29_ListedIsRouted ==
    /\ s_last # <<>> =>
          (s_last[1].name \in ToolNamesOf(SimpleTools)
               <=> s_last[1].result # SimpleUnknownTool(s_last[1].name))
    /\ fm_last # <<>> =>
          (fm_last[1].name \in ToolNamesOf(FileTools)
               <=> fm_last[1].result # FmUnknownTool(fm_last[1].name))
    /\ last # <<>> =>
          (Registered(last[1].name)
               <=> last[1].result # UnknownToolResult(last[1].name))

\* the path that a request of the file manager names, as a sequence of at
\* most one path
RequestPath(arguments) ==
    IF ~ArgsTruthy(arguments) THEN <<>>
    ELSE IF "filepath" \in DOMAIN arguments[1] THEN <<arguments[1].filepath>>
    ELSE IF "directory" \in DOMAIN arguments[1] THEN <<arguments[1].directory>>
    ELSE <<>>

\* C28: the allow-list check accepts a path only if its absolute form is an
\* allowed root or lies in the directory tree of one; a sibling whose name
\* begins with the text of a root is rejected.
C28_AllowedIsInsideRoot ==
    (fm_last # <<>> /\ RequestPath(fm_last[1].arguments) # <<>>) =>
        (is_path_allowed(RequestPath(fm_last[1].arguments)[1])
             => InsideSomeRoot(RequestPath(fm_last[1].arguments)[1]))

(***************************************************************************)
(* Properties of the success flag of the production server.                *)
(***************************************************************************)

\* the response is the error envelope of handle_call_tool
ErrorEnvelope(l) ==
    /\ l.outcome = "returned"
    /\ l.result.error
    /\ l.result.text[1] = "Error executing "

\* the response is what the tool's handler returned
HandlersOwnResult(l) ==
    /\ l.outcome = "returned"
    /\ l.called
    /\ ~l.failed_inside
    /\ ~l.result.error

\* C30: an invocation is recorded as successful if and only if the caller
\* received the handler's own result; every error envelope is recorded as a
\* failure, and every recorded failure is an error envelope or an invocation
\* cancelled before it returned.
C30_SuccessIffOwnResult ==
    [][ Finishes =>
          /\ metrics'.requests_total = metrics.requests_total + 1
          /\ (metrics'.requests_successful = metrics.requests_successful + 1)
                <=> HandlersOwnResult(last'[1])
          /\ ErrorEnvelope(last'[1])
                => metrics'.requests_failed = metrics.requests_failed + 1
          /\ (metrics'.requests_failed = metrics.requests_failed + 1)
                => (ErrorEnvelope(last'[1]) \/ last'[1].outcome = "raised")
      ]_vars

\* A cancelled invocation has been recorded as failed after a call that
\* returned its handler's result.
C30_Witness ==
    /\ last # <<>>
    /\ last[1].outcome = "raised"
    /\ server_task = "cancelling"
    /\ metrics.requests_failed = 1
    /\ metrics.requests_successful = 1

====
